---- MODULE Spec2Model ----
(***************************************************************************)
(* Verification model of the design-patterns repository:                   *)
(*   - FixedWindowRateLimiter  (src/unnamed/part_002)         SpecFW       *)
(*   - TokenBucketRateLimiter  (src/unnamed/part_003)         SpecTB,      *)
(*                                                            SpecTBTen,   *)
(*                                                            SpecTBExample*)
(*   - withRetry  (src/src/GeneralUtils/retryWithFallback.ts) SpecRetry    *)
(*   - DatabaseConnection  (src/src/Singleton/README.md)      SpecDb       *)
(*   - CustomPizzaBuilder  (src/src/Builder/PizzaBuilder.ts)  SpecPizza    *)
(*   - RestaurantFacade  (src/unnamed/part_006)         SpecRestaurant     *)
(*   - NotificationFactory  (src/src/FactoryMethod/)    SpecNotification   *)
(*   - retry  (src/unnamed/part_005)                    SpecRetry5         *)
(* Each component has its own specification; the variables of the other    *)
(* components stay at their constructed values.                            *)
(***************************************************************************)
EXTENDS Integers, Sequences, FiniteSets, TLC

(***************************************************************************)
(* Bounds of the model.                                                    *)
(***************************************************************************)
\* Largest maxRequests / timeWindowMs a limiter is constructed with.
MaxMaxRequests == 2
MaxTimeWindowMs == 3
\* Date.now() runs from 0 to MaxNow (milliseconds) in the fixed-window model.
MaxNow == 4
\* Calls of isAllowed recorded per identifier.
MaxCalls == 4
\* Date.now() runs from 0 to MaxTbNow (milliseconds) in the token-bucket model.
MaxTbNow == 1500
\* A timer of the example fires at most MaxLateMs milliseconds late.
MaxLateMs == 2
\* Largest maxRetries withRetry is called with.
MaxMaxRetries == 2
\* Calls of DatabaseConnection.getInstance(), and lines written to the console.
MaxGetInstance == 3
MaxConsole == 5
\* Pizza objects a CustomPizzaBuilder creates, and calls of its setters.
MaxPizzas == 3
MaxSetterCalls == 4

\* Calls of takeOrder and serveOrder made on a RestaurantFacade.
MaxRestaurantCalls == 4

\* Largest retries argument of retry, and the time its clock runs to.
MaxRetriesArg == 3
MaxRetryNow == 2000

\* The identifiers (user ids, IP addresses) requests come from.
Identifiers == {"A", "B"}

VARIABLES
    \* FixedWindowRateLimiter
    maxRequests,        \* private maxRequests
    timeWindowMs,       \* private timeWindowMs
    requestTimestamps,  \* private requestTimestamps: Map<string, number[]>
    fwNow,              \* Date.now() as seen by the fixed-window limiter
    fwCalls,            \* history: per identifier, the calls made and their results
    \* TokenBucketRateLimiter
    capacity,           \* private capacity   (a double)
    rate,               \* private rate       (tokens per second)
    tokens,             \* private tokens     (a double)
    lastCheckedAt,      \* private lastCheckedAt
    tbNow,              \* Date.now() as seen by the token bucket
    tbLast,             \* history: the latest isAllowed call (or the construction)
    tbPrev,             \* history: the call before the latest
    tbBurst,            \* history: number of isAllowed(1) calls made so far, when
                        \* nothing else happened since construction; -1 otherwise
    \* Example usage of TokenBucketRateLimiter
    exPending,          \* the timers set by setTimeout that have not fired yet
    exFired,            \* history: the timer that fired last, -1 before the first
    exOnTime,           \* history: every timer so far fired exactly when due
    \* withRetry
    rtOptions,          \* the options after merging with defaultRetryOptions
    rtAttempt,          \* let attempt
    rtError,            \* let error
    rtDelay,            \* const delay of the latest wait
    rtPc,               \* "idle", "loop", "fn" (awaiting fn), "wait", "done"
    rtPromise,          \* the promise withRetry returned: [state, value]
    rtInFlight,         \* history: invocations of fn started and not settled
    rtOutcomes,         \* history: how each invocation of fn settled
    rtEvents,           \* history: "fn" per invocation of fn, "wait" per wait(delay)
    \* DatabaseConnection
    dbInstance,         \* private static instance (NoInstance while undefined)
    dbObjects,          \* the DatabaseConnection objects constructed, by reference
    dbConsole,          \* the lines written by console.log
    dbReturned,         \* history: the references getInstance() returned
    \* CustomPizzaBuilder
    pzHeap,             \* the Pizza objects created, by reference
    pzPizza,            \* private pizza: the reference the builder holds
    pzBuilt,            \* history: per build(), the reference returned, the pizza
                        \* it named on return and what had been set
    pzSet,              \* history: what was set since construction, build(), reset()
    pzCalls,            \* history: number of setter calls
    \* RestaurantFacade
    rsOrders,           \* waiter.orders
    rsCreated,          \* history: number of Order objects constructed
    rsLog,              \* history: the calls made, with the list before and after
    \* NotificationFactory
    nfCall,             \* history: the latest createNotification call and its outcome
    nfConsole,          \* the line the notification it returned has sent
    \* retry
    r5Retries,          \* the retries parameter
    r5I,                \* let i
    r5Pc,               \* "idle", "for", "fn" (awaiting fn), "delay", "done"
    r5Promise,          \* the promise retry returned: [state, value]
    r5Now,              \* the time in milliseconds since retry was called
    r5Due,              \* when the timer of delay(1000) is due, -1 if not set
    r5Outcomes,         \* history: how and when each invocation of fn settled
    r5Waits             \* history: the delays awaited, from when to when

fwVars == <<maxRequests, timeWindowMs, requestTimestamps, fwNow, fwCalls>>
tbVars == <<capacity, rate, tokens, lastCheckedAt, tbNow, tbLast, tbPrev, tbBurst>>
exVars == <<exPending, exFired, exOnTime>>
rtVars == <<rtOptions, rtAttempt, rtError, rtDelay, rtPc, rtPromise, rtInFlight,
            rtOutcomes, rtEvents>>
dbVars == <<dbInstance, dbObjects, dbConsole, dbReturned>>
pzVars == <<pzHeap, pzPizza, pzBuilt, pzSet, pzCalls>>
rsVars == <<rsOrders, rsCreated, rsLog>>
nfVars == <<nfCall, nfConsole>>
r5Vars == <<r5Retries, r5I, r5Pc, r5Promise, r5Now, r5Due, r5Outcomes, r5Waits>>
vars == <<maxRequests, timeWindowMs, requestTimestamps, fwNow, fwCalls,
          capacity, rate, tokens, lastCheckedAt, tbNow, tbLast, tbPrev, tbBurst,
          exPending, exFired, exOnTime,
          rtOptions, rtAttempt, rtError, rtDelay, rtPc, rtPromise, rtInFlight,
          rtOutcomes, rtEvents,
          dbInstance, dbObjects, dbConsole, dbReturned,
          pzHeap, pzPizza, pzBuilt, pzSet, pzCalls,
          rsOrders, rsCreated, rsLog,
          nfCall, nfConsole,
          r5Retries, r5I, r5Pc, r5Promise, r5Now, r5Due, r5Outcomes, r5Waits>>

\* What the actions of one component leave alone: the other components.
fwRest == <<tbVars, exVars, rtVars, dbVars, pzVars, rsVars, nfVars, r5Vars>>
tbRest == <<fwVars, rtVars, dbVars, pzVars, rsVars, nfVars, r5Vars>>
rtRest == <<fwVars, tbVars, exVars, dbVars, pzVars, rsVars, nfVars, r5Vars>>
dbRest == <<fwVars, tbVars, exVars, rtVars, pzVars, rsVars, nfVars, r5Vars>>
pzRest == <<fwVars, tbVars, exVars, rtVars, dbVars, rsVars, nfVars, r5Vars>>
rsRest == <<fwVars, tbVars, exVars, rtVars, dbVars, pzVars, nfVars, r5Vars>>
nfRest == <<fwVars, tbVars, exVars, rtVars, dbVars, pzVars, rsVars, r5Vars>>
r5Rest == <<fwVars, tbVars, exVars, rtVars, dbVars, pzVars, rsVars, nfVars>>

(***************************************************************************)
(* FixedWindowRateLimiter                                                  *)
(***************************************************************************)

\* this.requestTimestamps.get(identifier) || []
GetTimestamps(map, identifier) ==
    IF identifier \in DOMAIN map THEN map[identifier] ELSE <<>>

\* this.requestTimestamps.set(identifier, value)
MapSet(map, identifier, value) ==
    [k \in (DOMAIN map) \cup {identifier} |->
        IF k = identifier THEN value ELSE map[k]]

\* Mutation: the window test is dropped, every stored timestamp counts.
InWindowNoExpiry(now, ts, window) == TRUE

\* Mutation: a timestamp exactly `window` old still counts.
InWindowInclusive(now, ts, window) == now - ts <= window

\* (ts) => now - ts < this.timeWindowMs
InWindow(now, ts, window) == now - ts < window

\* timestamps.filter((ts) => now - ts < this.timeWindowMs)
RecentTimestamps(timestamps, now, window) ==
    SelectSeq(timestamps, LAMBDA ts : InWindow(now, ts, window))

\* Mutation: off by one, the last request of the budget is refused.
LimitReachedEarly(count, max) == count + 1 >= max

\* Mutation: off by one, one request too many passes.
LimitReachedOffByOne(count, max) == count > max

\* recentTimestamps.length >= this.maxRequests
LimitReached(count, max) == count >= max

\* Mutation: the timestamp is pushed and stored before the limit is tested.
StoreAlways(map, identifier, recent, now, denied) ==
    MapSet(map, identifier, Append(recent, now))

\* Mutation: the timestamp is pushed onto the unfiltered list.
StoreUnpruned(map, identifier, recent, now, denied) ==
    IF denied THEN map
    ELSE MapSet(map, identifier, Append(GetTimestamps(map, identifier), now))

\* Mutation: one list is kept for all identifiers.
StoreShared(map, identifier, recent, now, denied) ==
    IF denied THEN map
    ELSE [k \in Identifiers |-> Append(recent, now)]

\* The map after isAllowed: untouched on `return false`, otherwise
\* recentTimestamps.push(now); this.requestTimestamps.set(identifier, recentTimestamps)
StoreAfterCall(map, identifier, recent, now, denied) ==
    IF denied THEN map
    ELSE MapSet(map, identifier, Append(recent, now))

\* isAllowed(identifier) of FixedWindowRateLimiter
FWIsAllowed(identifier) ==
    LET now == fwNow
        timestamps == GetTimestamps(requestTimestamps, identifier)
        recentTimestamps == RecentTimestamps(timestamps, now, timeWindowMs)
        denied == LimitReached(Len(recentTimestamps), maxRequests)
    IN  /\ Len(fwCalls[identifier]) < MaxCalls
        /\ requestTimestamps' =
               StoreAfterCall(requestTimestamps, identifier, recentTimestamps, now, denied)
        /\ fwCalls' = [fwCalls EXCEPT ![identifier] =
                          Append(@, [ts |-> now, result |-> ~denied])]
        /\ UNCHANGED <<maxRequests, timeWindowMs, fwNow>>
        /\ UNCHANGED fwRest

\* Date.now() advances between two calls.
FWTick ==
    /\ fwNow < MaxNow
    /\ fwNow' = fwNow + 1
    /\ UNCHANGED <<maxRequests, timeWindowMs, requestTimestamps, fwCalls>>
    /\ UNCHANGED fwRest

\* new FixedWindowRateLimiter({maxRequests, timeWindowMs})
FWConstructed ==
    /\ maxRequests \in 1..MaxMaxRequests
    /\ timeWindowMs \in 1..MaxTimeWindowMs
    /\ requestTimestamps = <<>>
    /\ fwNow = 0
    /\ fwCalls = [k \in Identifiers |-> <<>>]

(***************************************************************************)
(* Properties of FixedWindowRateLimiter (checked under SpecFW)             *)
(***************************************************************************)
\* The allowed calls of history c among its first j calls whose timestamp is
\* less than timeWindowMs older than the j-th call's.
AllowedInWindow(c, j) ==
    {i \in 1..j : c[i].result /\ c[j].ts - c[i].ts < timeWindowMs}

\* C1: at every call for an identifier K, made at time `now`, the number of
\* allowed calls for K with now - ts < timeWindowMs (the current call included
\* when it is allowed) is at most maxRequests.
C1_WindowBound ==
    \A K \in Identifiers : \A j \in 1..Len(fwCalls[K]) :
        Cardinality(AllowedInWindow(fwCalls[K], j)) <= maxRequests

\* C1 witness: an identifier was refused with maxRequests allowed calls in
\* its window, while an older allowed call of it had already expired.
C1_Witness ==
    \E K \in Identifiers : \E j \in 1..Len(fwCalls[K]) :
        /\ ~fwCalls[K][j].result
        /\ Cardinality(AllowedInWindow(fwCalls[K], j)) = maxRequests
        /\ \E i \in 1..j : /\ fwCalls[K][i].result
                           /\ fwCalls[K][j].ts - fwCalls[K][i].ts >= timeWindowMs

\* C2: of maxRequests+1 consecutive calls for an identifier without history,
\* made with no clock advance, the first maxRequests return true and the
\* (maxRequests+1)th returns false.
C2_BurstThenDenied ==
    \A K \in Identifiers : \A j \in 1..Len(fwCalls[K]) :
        (j <= maxRequests + 1 /\ fwCalls[K][j].ts = fwCalls[K][1].ts)
            => (fwCalls[K][j].result <=> (j <= maxRequests))

\* C2 witness: an identifier made maxRequests+1 calls, all at one instant.
C2_Witness ==
    \E K \in Identifiers :
        /\ Len(fwCalls[K]) >= maxRequests + 1
        /\ fwCalls[K][maxRequests + 1].ts = fwCalls[K][1].ts
        /\ ~fwCalls[K][maxRequests + 1].result
        /\ maxRequests >= 2

\* Call j of history c comes after maxRequests calls were allowed at one time
\* t0 (the time of call i), every call between i and j was refused, and call
\* j is made later than t0 + timeWindowMs.
AfterFullWindow(c, i, j) ==
    /\ i < j
    /\ c[i].result
    /\ \A h \in (i + 1)..(j - 1) : ~c[h].result
    /\ Cardinality({h \in 1..i : c[h].result /\ c[h].ts = c[i].ts}) = maxRequests
    /\ c[j].ts > c[i].ts + timeWindowMs

\* C3: once maxRequests calls for K were allowed at time t0, a call for K at
\* any time t > t0 + timeWindowMs returns true, whatever number of refused
\* calls for K happened in between.
C3_ExpiryReopens ==
    \A K \in Identifiers : \A j \in 1..Len(fwCalls[K]) : \A i \in 1..j :
        AfterFullWindow(fwCalls[K], i, j) => fwCalls[K][j].result

\* C3 witness: such a call happened, with a refused call in between.
C3_Witness ==
    \E K \in Identifiers : \E j \in 1..Len(fwCalls[K]) : \E i \in 1..j :
        /\ AfterFullWindow(fwCalls[K], i, j)
        /\ j > i + 1
        /\ fwCalls[K][j].result

\* The result of every call for K is the one its own history and the clock
\* determine: fewer than maxRequests allowed earlier calls of K in the window.
FWResultFromOwnHistory ==
    \A K \in Identifiers : \A j \in 1..Len(fwCalls[K]) :
        fwCalls[K][j].result <=>
            Cardinality(AllowedInWindow(fwCalls[K], j) \ {j}) < maxRequests

\* A step that is a call for identifier a leaves what is stored for b alone.
FWOtherHistoryKept ==
    \A a \in Identifiers : \A b \in Identifiers \ {a} :
        Len(fwCalls'[a]) > Len(fwCalls[a]) =>
            /\ (b \in DOMAIN requestTimestamps') = (b \in DOMAIN requestTimestamps)
            /\ GetTimestamps(requestTimestamps', b) = GetTimestamps(requestTimestamps, b)

\* C4: a call for identifier A, allowed or refused, leaves the stored history
\* of every other identifier B unchanged, and the result of a call for B
\* depends only on the clock and on the earlier calls for B.
C4_Independence ==
    [][FWOtherHistoryKept]_vars /\ []FWResultFromOwnHistory

\* C4 witness: A was refused at its limit and B, called at the same instant
\* or later, was allowed.
C4_Witness ==
    \E a \in Identifiers : \E b \in Identifiers \ {a} :
        /\ fwCalls[a] # <<>> /\ fwCalls[b] # <<>>
        /\ ~fwCalls[a][Len(fwCalls[a])].result
        /\ fwCalls[b][Len(fwCalls[b])].result
        /\ fwCalls[b][Len(fwCalls[b])].ts >= fwCalls[a][Len(fwCalls[a])].ts
        /\ a \in DOMAIN requestTimestamps /\ b \in DOMAIN requestTimestamps

\* A step that is a refused call for K appends nothing for K, and the
\* timestamps of K that count at any later time are the same as before.
FWDeniedKeepsHistory ==
    \A K \in Identifiers :
        (/\ Len(fwCalls'[K]) > Len(fwCalls[K])
         /\ ~fwCalls'[K][Len(fwCalls'[K])].result)
        => /\ Len(GetTimestamps(requestTimestamps', K))
                  = Len(GetTimestamps(requestTimestamps, K))
           /\ \A t \in fwNow..(MaxNow + MaxTimeWindowMs) :
                  RecentTimestamps(GetTimestamps(requestTimestamps', K), t, timeWindowMs)
                      = RecentTimestamps(GetTimestamps(requestTimestamps, K), t, timeWindowMs)

\* C5: a call that returns false appends no timestamp for K; the timestamps
\* of K that count towards later calls are the same before and after it.
C5_DeniedNotCounted == [][FWDeniedKeepsHistory]_vars

\* C5 witness: K was refused twice and was allowed again when its window had
\* passed.
C5_Witness ==
    \E K \in Identifiers : \E j \in 3..Len(fwCalls[K]) :
        /\ ~fwCalls[K][j - 2].result
        /\ ~fwCalls[K][j - 1].result
        /\ fwCalls[K][j].result

\* In history c, call i is the last of maxRequests calls allowed at one time
\* t0, and every call between i and the later call j was refused.
LimitFilledAt(c, i, j) ==
    /\ i < j
    /\ c[i].result
    /\ \A h \in (i + 1)..(j - 1) : ~c[h].result
    /\ Cardinality({h \in 1..i : c[h].result /\ c[h].ts = c[i].ts}) = maxRequests

\* C12: a timestamp exactly timeWindowMs old is not counted: after maxRequests
\* allowed calls for K at time t0, a call for K at exactly t0 + timeWindowMs
\* returns true, and a call at t0 + timeWindowMs - 1 returns false.
C12_HalfOpenWindow ==
    \A K \in Identifiers : \A j \in 1..Len(fwCalls[K]) : \A i \in 1..j :
        LimitFilledAt(fwCalls[K], i, j) =>
            /\ fwCalls[K][j].ts = fwCalls[K][i].ts + timeWindowMs
                   => fwCalls[K][j].result
            /\ fwCalls[K][j].ts = fwCalls[K][i].ts + timeWindowMs - 1
                   => ~fwCalls[K][j].result

\* C12 witness: K, at its limit since t0, was refused at t0 + timeWindowMs - 1,
\* a time later than t0, and allowed at t0 + timeWindowMs.
C12_Witness ==
    \E K \in Identifiers : \E j \in 1..Len(fwCalls[K]) : \E i \in 1..j :
        /\ LimitFilledAt(fwCalls[K], i, j)
        /\ timeWindowMs >= 2
        /\ fwCalls[K][j].ts = fwCalls[K][i].ts + timeWindowMs
        /\ fwCalls[K][j].result
        /\ j > i + 1
        /\ fwCalls[K][j - 1].ts = fwCalls[K][i].ts + timeWindowMs - 1
        /\ ~fwCalls[K][j - 1].result

\* C13: after a call for K at time `now` returned false, and until the next
\* call for K, the history stored for K holds no timestamp ts with
\* now - ts >= timeWindowMs.
C13_DeniedHistoryPruned ==
    \A K \in Identifiers :
        (fwCalls[K] # <<>> /\ ~fwCalls[K][Len(fwCalls[K])].result) =>
            LET now == fwCalls[K][Len(fwCalls[K])].ts
                stored == GetTimestamps(requestTimestamps, K)
            IN  \A h \in 1..Len(stored) : ~(now - stored[h] >= timeWindowMs)

\* C13 witness: K was refused by its latest call, and an earlier allowed call
\* of K was older than the window by then.
C13_Witness ==
    \E K \in Identifiers :
        /\ fwCalls[K] # <<>>
        /\ ~fwCalls[K][Len(fwCalls[K])].result
        /\ \E i \in 1..Len(fwCalls[K]) :
               /\ fwCalls[K][i].result
               /\ fwCalls[K][Len(fwCalls[K])].ts - fwCalls[K][i].ts >= timeWindowMs

(***************************************************************************)
(* IEEE 754 double precision, the `number` of the source.                  *)
(*                                                                         *)
(* A double is a record [neg, mag]: its sign and its magnitude, counted in *)
(* units of 2^-62 and written as four limbs of 20 bits, least significant  *)
(* first (one token is <<0, 0, 0, 4>>).  Every double the limiter computes *)
(* from whole milliseconds and quantities below 2^18 is a whole number of  *)
(* these units.  Each operation computes the exact result and rounds it to *)
(* 53 significant bits, ties to even, as the hardware does.                *)
(***************************************************************************)
\* 2^20, the base of a limb, and the bits in it; bits of a double's significand;
\* the unit is 2^-UnitBits; guard bits kept by a division before rounding.
LimbBase == 1048576
LimbBits == 20
SignificandBits == 53
UnitBits == 62
GuardBits == 4

MagZero == <<0, 0, 0, 0>>
MagOne == <<1, 0, 0, 0>>

\* The magnitude of a natural number below 2^31.
MagFromNat(n) == <<n % LimbBase, n \div LimbBase, 0, 0>>

\* The limb i of a magnitude, 0 outside of it.
Limb(a, i) == IF i \in 1..4 THEN a[i] ELSE 0

MagAdd(a, b) ==
    LET s1 == a[1] + b[1]
        s2 == a[2] + b[2] + s1 \div LimbBase
        s3 == a[3] + b[3] + s2 \div LimbBase
        s4 == a[4] + b[4] + s3 \div LimbBase
    IN  <<s1 % LimbBase, s2 % LimbBase, s3 % LimbBase, s4>>

\* a - b, for a >= b
MagSub(a, b) ==
    LET d1 == a[1] - b[1]
        d2 == a[2] - b[2] - (IF d1 < 0 THEN 1 ELSE 0)
        d3 == a[3] - b[3] - (IF d2 < 0 THEN 1 ELSE 0)
        d4 == a[4] - b[4] - (IF d3 < 0 THEN 1 ELSE 0)
    IN  <<d1 % LimbBase, d2 % LimbBase, d3 % LimbBase, d4>>

MagLess(a, b) ==
    \/ a[4] < b[4]
    \/ a[4] = b[4] /\ a[3] < b[3]
    \/ a[4] = b[4] /\ a[3] = b[3] /\ a[2] < b[2]
    \/ a[4] = b[4] /\ a[3] = b[3] /\ a[2] = b[2] /\ a[1] < b[1]

\* a * k, for a natural k up to 2000
MagMulNat(a, k) ==
    LET p1 == a[1] * k
        p2 == a[2] * k + p1 \div LimbBase
        p3 == a[3] * k + p2 \div LimbBase
        p4 == a[4] * k + p3 \div LimbBase
    IN  <<p1 % LimbBase, p2 % LimbBase, p3 % LimbBase, p4>>

\* Quotient and remainder of a by a natural d, 0 < d <= 2000 (long division).
MagDivNat(a, d) ==
    LET n4 == a[4]
        n3 == (n4 % d) * LimbBase + a[3]
        n2 == (n3 % d) * LimbBase + a[2]
        n1 == (n2 % d) * LimbBase + a[1]
    IN  [quot |-> <<n1 \div d, n2 \div d, n3 \div d, n4 \div d>>, rem |-> n1 % d]

\* Number of significant bits of a natural below 2^30, and of a magnitude.
NatBitLength(x) ==
    IF x < 32768
    THEN IF x < 128
         THEN IF x < 8
              THEN IF x < 2 THEN x ELSE IF x < 4 THEN 2 ELSE 3
              ELSE IF x < 32 THEN (IF x < 16 THEN 4 ELSE 5)
                   ELSE (IF x < 64 THEN 6 ELSE 7)
         ELSE IF x < 2048
              THEN IF x < 512 THEN (IF x < 256 THEN 8 ELSE 9)
                   ELSE (IF x < 1024 THEN 10 ELSE 11)
              ELSE IF x < 8192 THEN (IF x < 4096 THEN 12 ELSE 13)
                   ELSE (IF x < 16384 THEN 14 ELSE 15)
    ELSE 15 + (CHOOSE k \in 1..15 : x \div 32768 < 2^k /\ x \div 32768 >= 2^(k - 1))

MagBitLength(a) ==
    IF a[4] > 0 THEN 3 * LimbBits + NatBitLength(a[4])
    ELSE IF a[3] > 0 THEN 2 * LimbBits + NatBitLength(a[3])
    ELSE IF a[2] > 0 THEN LimbBits + NatBitLength(a[2])
    ELSE NatBitLength(a[1])

\* a shifted right, and left, by s bits (the bits shifted out are dropped).
MagShiftRight(a, s) ==
    LET w == s \div LimbBits
        b == s % LimbBits
    IN  [i \in 1..4 |->
            Limb(a, i + w) \div 2^b
                + (Limb(a, i + w + 1) % 2^b) * 2^(LimbBits - b)]

MagShiftLeft(a, s) ==
    LET w == s \div LimbBits
        b == s % LimbBits
    IN  [i \in 1..4 |->
            (Limb(a, i - w) % 2^(LimbBits - b)) * 2^b
                + Limb(a, i - w - 1) \div 2^(LimbBits - b)]

\* 2^s as a magnitude, and the low s bits of a (a modulo 2^s).
MagPow2(s) ==
    [i \in 1..4 |-> IF i = s \div LimbBits + 1 THEN 2^(s % LimbBits) ELSE 0]

MagLowBits(a, s) ==
    [i \in 1..4 |->
        IF LimbBits * i <= s THEN a[i]
        ELSE IF LimbBits * (i - 1) >= s THEN 0
        ELSE a[i] % 2^(s - LimbBits * (i - 1))]

\* The bit of weight 2^s of a.
MagBit(a, s) == (a[s \div LimbBits + 1] \div 2^(s % LimbBits)) % 2

\* a rounded to SignificandBits significant bits, to nearest, ties to even.
MagRound(a) ==
    LET s == MagBitLength(a) - SignificandBits
        low == MagLowBits(a, s)
        half == MagPow2(s - 1)
        up == MagLess(half, low) \/ (low = half /\ MagBit(a, s) = 1)
    IN  IF s <= 0 THEN a
        ELSE IF up THEN MagAdd(MagSub(a, low), MagPow2(s))
        ELSE MagSub(a, low)

\* The double of a natural n below 2^18 (exact).
DoubleFromNat(n) == [neg |-> FALSE, mag |-> MagShiftLeft(MagFromNat(n), UnitBits)]

DoubleZero == DoubleFromNat(0)
DoubleOne == DoubleFromNat(1)

\* n / d in double arithmetic, for naturals n < 2^14 and 0 < d <= 1000: the
\* quotient is computed with GuardBits more bits, a nonzero remainder is
\* kept as a sticky bit, and the result is rounded.
DoubleDivNat(n, d) ==
    LET qr == MagDivNat(MagShiftLeft(MagFromNat(n), UnitBits + GuardBits), d)
        sticky == IF qr.rem # 0 /\ qr.quot[1] % 2 = 0
                  THEN MagAdd(qr.quot, MagOne) ELSE qr.quot
    IN  IF n = 0 THEN [neg |-> FALSE, mag |-> MagZero]
        ELSE [neg |-> FALSE, mag |-> MagShiftRight(MagRound(sticky), GuardBits)]

\* x * k in double arithmetic, for a natural k up to 2000
DoubleMulNat(x, k) == [neg |-> x.neg, mag |-> MagRound(MagMulNat(x.mag, k))]

DoubleNeg(x) == [neg |-> (~x.neg /\ x.mag # MagZero), mag |-> x.mag]

\* x + y and x - y in double arithmetic
DoubleAdd(x, y) ==
    IF x.neg = y.neg THEN [neg |-> x.neg, mag |-> MagRound(MagAdd(x.mag, y.mag))]
    ELSE IF MagLess(x.mag, y.mag)
         THEN [neg |-> y.neg, mag |-> MagRound(MagSub(y.mag, x.mag))]
    ELSE IF x.mag = y.mag THEN [neg |-> FALSE, mag |-> MagZero]
    ELSE [neg |-> x.neg, mag |-> MagRound(MagSub(x.mag, y.mag))]

DoubleSub(x, y) == DoubleAdd(x, DoubleNeg(y))

\* x < y and x <= y
DoubleLess(x, y) ==
    IF x.neg /\ ~y.neg THEN TRUE
    ELSE IF ~x.neg /\ y.neg THEN FALSE
    ELSE IF x.neg THEN MagLess(y.mag, x.mag)
    ELSE MagLess(x.mag, y.mag)

DoubleLeq(x, y) == ~DoubleLess(y, x)

\* Math.min
DoubleMin(x, y) == IF DoubleLess(y, x) THEN y ELSE x

\* The whole part of a double x, 0 <= x < 2^18.
DoubleFloor(x) == MagShiftRight(x.mag, UnitBits)[1]

\* x is a whole number.
DoubleIsWhole(x) == x = DoubleFromNat(DoubleFloor(x))

(***************************************************************************)
(* TokenBucketRateLimiter                                                  *)
(*                                                                         *)
(* capacity, tokens and tokensRequested are doubles; rate is a whole       *)
(* number of tokens per second; Date.now() and lastCheckedAt are whole     *)
(* numbers of milliseconds.                                                *)
(***************************************************************************)
\* (now - this.lastCheckedAt) / 1000: milliseconds in a second
MsPerSecond == 1000

\* Example usage: 15 requests, 100 ms apart, and one request after 1000 ms.
LoopCalls == 15
LoopGapMs == 100
ExtraDelayMs == 1000

\* The double a decimal literal of `thousandths` thousandths stands for.
Num(thousandths) == DoubleDivNat(thousandths, 1000)

\* Capacities (1, 2 and 2.5 tokens) and rates (tokens per second) a bucket
\* is constructed with; amounts Date.now() advances by between calls;
\* amounts of tokens requested (0.3 and 1 token).
Capacities == {Num(1000), Num(2000), Num(2500)}
Rates == {1, 2}
Delays == {500, 1000}
Requests == {Num(300), Num(1000)}

\* Mutation: the bucket starts empty.
InitialTokensEmpty(cap) == DoubleZero

\* constructor: this.tokens = capacity
InitialTokens(cap) == cap

\* ms / 1000 in double arithmetic, tabulated for the elapsed times of the model.
Seconds ==
    [ms \in 0..(MaxTbNow + LoopCalls * LoopGapMs + MaxLateMs) |->
        DoubleDivNat(ms, MsPerSecond)]

\* const timePassed = (now - this.lastCheckedAt) / 1000
TimePassed(now, last) == Seconds[now - last]

\* Mutation: the refill is not clamped to the capacity.
RefillUnclamped(cap, current, timePassed, r) ==
    DoubleAdd(current, DoubleMulNat(timePassed, r))

\* Mutation: the elapsed milliseconds are credited as seconds.
RefillMsAsSeconds(cap, current, timePassed, r) ==
    DoubleMin(cap, DoubleAdd(current,
                             DoubleMulNat(DoubleMulNat(timePassed, MsPerSecond), r)))

\* Math.min(this.capacity, this.tokens + timePassed * this.rate)
Refill(cap, current, timePassed, r) ==
    DoubleMin(cap, DoubleAdd(current, DoubleMulNat(timePassed, r)))

\* Mutation: strict comparison, the exact amount is refused.
EnoughStrict(current, tokensRequested) == DoubleLess(tokensRequested, current)

\* this.tokens >= tokensRequested
Enough(current, tokensRequested) == DoubleLeq(tokensRequested, current)

\* Mutation: lastCheckedAt is only updated when the call is allowed.
LastCheckedOnSuccess(now, last, allowed) == IF allowed THEN now ELSE last

\* this.lastCheckedAt = now
NextLastCheckedAt(now, last, allowed) == now

\* Mutation: the request is subtracted whatever the outcome, floored at 0.
TokensLeftAlwaysSubtract(refilled, tokensRequested, allowed) ==
    IF DoubleLeq(tokensRequested, refilled)
    THEN DoubleSub(refilled, tokensRequested) ELSE DoubleZero

\* if (...) { this.tokens -= tokensRequested; return true; } return false;
TokensLeft(refilled, tokensRequested, allowed) ==
    IF allowed THEN DoubleSub(refilled, tokensRequested) ELSE refilled

\* The record of the construction, in the format of a call record.
TBConstruction(cap, now) ==
    [at |-> now, n |-> DoubleZero, credit |-> DoubleZero, refilled |-> cap,
     result |-> TRUE, tokens |-> InitialTokens(cap)]

\* isAllowed(tokensRequested) of TokenBucketRateLimiter
TBIsAllowed(tokensRequested) ==
    LET now == tbNow
        timePassed == TimePassed(now, lastCheckedAt)
        refilled == Refill(capacity, tokens, timePassed, rate)
        allowed == Enough(refilled, tokensRequested)
        left == TokensLeft(refilled, tokensRequested, allowed)
        credit == DoubleMulNat(timePassed, rate)
    IN  /\ lastCheckedAt' = NextLastCheckedAt(now, lastCheckedAt, allowed)
        /\ tokens' = left
        /\ tbPrev' = tbLast
        /\ tbLast' = [at |-> now, n |-> tokensRequested,
                      credit |-> credit,
                      refilled |-> refilled,
                      result |-> allowed, tokens |-> left]
        /\ tbBurst' = IF /\ tbBurst >= 0
                         /\ tbBurst <= DoubleFloor(capacity)
                         /\ tokensRequested = DoubleOne
                         /\ now = 0
                      THEN tbBurst + 1 ELSE -1
        /\ UNCHANGED <<capacity, rate, tbNow>>

\* isAllowed is called with one of the amounts of Requests.
TBRequest ==
    /\ \E tokensRequested \in Requests : TBIsAllowed(tokensRequested)
    /\ UNCHANGED <<exVars, tbRest>>

\* isAllowed(1) is called.
TBRequestOne ==
    /\ TBIsAllowed(DoubleOne)
    /\ UNCHANGED <<exVars, tbRest>>

\* isAllowed is called with exactly the amount the bucket holds after refill.
TBRequestAll ==
    LET refilled == Refill(capacity, tokens, TimePassed(tbNow, lastCheckedAt), rate)
    IN  /\ DoubleLess(DoubleZero, refilled)
        /\ TBIsAllowed(refilled)
        /\ UNCHANGED <<exVars, tbRest>>

\* Date.now() advances between two calls.
TBTick ==
    \E d \in Delays :
        /\ tbNow + d <= MaxTbNow
        /\ tbNow' = tbNow + d
        /\ UNCHANGED <<capacity, rate, tokens, lastCheckedAt, tbLast, tbPrev, tbBurst>>
        /\ UNCHANGED <<exVars, tbRest>>

\* new TokenBucketRateLimiter(capacity, rate)
TBConstructed ==
    /\ capacity \in Capacities
    /\ rate \in Rates
    /\ tokens = InitialTokens(capacity)
    /\ lastCheckedAt = 0
    /\ tbNow = 0
    /\ tbLast = TBConstruction(capacity, 0)
    /\ tbPrev = TBConstruction(capacity, 0)
    /\ tbBurst = 0

\* The limiter of the example: new FixedWindowRateLimiter({5, 60000}), unused.
FWIdle ==
    /\ maxRequests = 5
    /\ timeWindowMs = 60000
    /\ requestTimestamps = <<>>
    /\ fwNow = 0
    /\ fwCalls = [k \in Identifiers |-> <<>>]

\* The bucket of the example: new TokenBucketRateLimiter(10, 1).
TBIdle ==
    /\ capacity = DoubleFromNat(10)
    /\ rate = 1
    /\ tokens = InitialTokens(DoubleFromNat(10))
    /\ lastCheckedAt = 0
    /\ tbNow = 0
    /\ tbLast = TBConstruction(DoubleFromNat(10), 0)
    /\ tbPrev = TBConstruction(DoubleFromNat(10), 0)
    /\ tbBurst = 0

(***************************************************************************)
(* Properties of TokenBucketRateLimiter (checked under SpecTB)             *)
(***************************************************************************)
\* A call record is one of a call of isAllowed, not of the construction.
IsCall(rec) == rec.n # DoubleZero

\* The token count after the refill of the latest call, from the calls made:
\* min(capacity, tokens left by the call before + elapsed seconds * rate).
PostRefill ==
    DoubleMin(capacity,
              DoubleAdd(tbPrev.tokens,
                        DoubleMulNat(Seconds[tbLast.at - tbPrev.at], rate)))

\* C6: 0 <= tokens <= capacity in every reachable state, after any sequence
\* of isAllowed calls and however long the limiter is left idle.
C6_TokensInRange == DoubleLeq(DoubleZero, tokens) /\ DoubleLeq(tokens, capacity)

\* C6 witness: a call was made after the bucket had been idle for longer than
\* it takes to fill it, and a call drained the bucket before that.
C6_Witness ==
    /\ IsCall(tbLast)
    /\ IsCall(tbPrev)
    /\ tbPrev.tokens = DoubleZero
    /\ DoubleLess(capacity, DoubleAdd(tbPrev.tokens, tbLast.credit))
    /\ tbLast.refilled = capacity
    /\ tbLast.result

\* C7: on a freshly constructed limiter of integer capacity C, with no clock
\* advance since construction, the first C calls isAllowed(1) return true and
\* the (C+1)th returns false.
C7_InitialBurst ==
    (tbBurst >= 1 /\ DoubleIsWhole(capacity))
        => (tbLast.result <=> (tbBurst <= DoubleFloor(capacity)))

\* C7 witness: the (C+1)th call isAllowed(1) of the burst was made, C = 2.
C7_Witness ==
    /\ capacity = DoubleFromNat(2)
    /\ tbBurst = 3
    /\ ~tbLast.result

\* The latest two calls are: isAllowed(1) refused at construction time on a
\* drained bucket, then isAllowed(1) made 1000 ms later, on a bucket of
\* capacity 10 and rate 1.
RefillScenario ==
    /\ capacity = DoubleFromNat(10)
    /\ rate = 1
    /\ tbPrev.n = DoubleFromNat(1)
    /\ tbPrev.at = 0
    /\ ~tbPrev.result
    /\ tbPrev.tokens = DoubleZero
    /\ tbLast.n = DoubleFromNat(1)
    /\ tbLast.at = tbPrev.at + 1000

\* C8: capacity 10, rate 1: after the bucket was drained at t=0 and a call
\* isAllowed(1) was refused at t=0, a call isAllowed(1) made 1000 ms later,
\* with no call in between, returns true and leaves 0 tokens.
C8_RefillAfterSecond == RefillScenario => (tbLast.result /\ tokens = DoubleZero)

\* C8 witness: the scenario happened, the call was allowed.
C8_Witness ==
    RefillScenario /\ tbLast.result /\ tbLast.credit = DoubleFromNat(1)

\* C9: a call isAllowed(n) in which n is exactly the token count after refill
\* returns true and leaves exactly 0 tokens.
C9_ExactAmount ==
    (IsCall(tbLast) /\ tbLast.n = tbLast.refilled)
        => (tbLast.result /\ tokens = DoubleZero)

\* C9 witness: the amount in the bucket after a refill, not a whole number of
\* tokens, was requested.
C9_Witness ==
    /\ IsCall(tbLast)
    /\ tbLast.n = tbLast.refilled
    /\ DoubleLess(DoubleZero, tbLast.credit)
    /\ ~DoubleIsWhole(tbLast.n)
    /\ tbLast.result

\* C10: every call sets lastCheckedAt to the current time, whether it returns
\* true or false, so that a call is credited the refill of the time elapsed
\* since the call before it (or the construction), and of no time before.
C10_LastCheckedAlwaysSet ==
    /\ lastCheckedAt = tbLast.at
    /\ IsCall(tbLast) => tbLast.refilled = PostRefill

\* C10 witness: a refused call was credited a refill, and a later call was
\* made without the bucket being full.
C10_Witness ==
    /\ IsCall(tbPrev)
    /\ ~tbPrev.result
    /\ DoubleLess(DoubleZero, tbPrev.credit)
    /\ IsCall(tbLast)
    /\ tbLast.at > tbPrev.at
    /\ DoubleLess(tbLast.refilled, capacity)

\* C11: with r the post-refill count, a call isAllowed(n) returns true
\* exactly when r >= n; a call that returns false leaves tokens = r and a
\* call that returns true leaves tokens = r - n.
C11_SubtractOrKeep ==
    IsCall(tbLast) =>
        /\ tbLast.result <=> DoubleLeq(tbLast.n, PostRefill)
        /\ tbLast.result => tokens = DoubleSub(PostRefill, tbLast.n)
        /\ ~tbLast.result => tokens = PostRefill

\* C11 witness: a call was refused although the bucket had been refilled by
\* the call, and keeps that refill.
C11_Witness ==
    /\ IsCall(tbLast)
    /\ ~tbLast.result
    /\ DoubleLess(DoubleZero, tbLast.credit)
    /\ DoubleLess(tbPrev.tokens, tokens)
    /\ DoubleLess(tokens, capacity)

(***************************************************************************)
(* Example usage of TokenBucketRateLimiter (src/unnamed/part_003, 40-53)   *)
(*                                                                         *)
(* The script constructs the bucket (10, 1) and sets 16 timers at time 0:  *)
(* timer i, for i = 0..14, calls isAllowed(1) after i * 100 ms, timer 15   *)
(* calls it after 1000 ms.  A timer fires when its delay has passed, not   *)
(* before and at most MaxLateMs late; timers fire in the order of their    *)
(* delays, and timers of one delay in the order they were set.             *)
(***************************************************************************)
\* The timers, named by the order setTimeout was called in, and their delays.
ExTimers == 0..LoopCalls

ExDelay(timer) == IF timer < LoopCalls THEN timer * LoopGapMs ELSE ExtraDelayMs

\* The timer of a non-empty set that fires first.
ExFirst(pending) ==
    CHOOSE t \in pending : \A u \in pending :
        \/ ExDelay(t) < ExDelay(u)
        \/ ExDelay(t) = ExDelay(u) /\ t <= u

\* Time passes until the next timer is due, or up to MaxLateMs longer.
ExWait ==
    /\ exPending # {}
    /\ \E late \in 0..MaxLateMs :
           /\ tbNow < ExDelay(ExFirst(exPending)) + late
           /\ tbNow' = ExDelay(ExFirst(exPending)) + late
    /\ UNCHANGED <<capacity, rate, tokens, lastCheckedAt, tbLast, tbPrev, tbBurst>>
    /\ UNCHANGED exVars
    /\ UNCHANGED tbRest

\* The next timer fires: console.log(bucketRateLimiter.isAllowed(1))
ExFire ==
    /\ exPending # {}
    /\ tbNow >= ExDelay(ExFirst(exPending))
    /\ TBIsAllowed(DoubleOne)
    /\ exPending' = exPending \ {ExFirst(exPending)}
    /\ exFired' = ExFirst(exPending)
    /\ exOnTime' = (exOnTime /\ tbNow = ExDelay(ExFirst(exPending)))
    /\ UNCHANGED tbRest

\* No example is running.
ExIdle ==
    /\ exPending = {}
    /\ exFired = -1
    /\ exOnTime = TRUE

\* C14: with the i-th call of the loop made i * 100 ms after construction,
\* the first 10 calls of the loop return true and the next 5 return false.
\* (tbLast is the call the timer exFired made.)
C14_TenThenRefused ==
    (exFired \in 0..(LoopCalls - 1) /\ exOnTime) => (tbLast.result <=> (exFired < 10))

\* C15: the call of the timer set for 1000 ms, which runs after the calls of
\* the loop set for 0, 100, ..., 1000 ms, returns true.
C15_ExtraCallAllowed ==
    (exFired = LoopCalls /\ exOnTime) => tbLast.result

(***************************************************************************)
(* withRetry (src/src/GeneralUtils/retryWithFallback.ts)                   *)
(*                                                                         *)
(* fn is any function returning a promise: each invocation either resolves *)
(* with one of Values or rejects with one of Errors.  Math.random() is 0   *)
(* or 1/2; the delays are even numbers of milliseconds, so that half a     *)
(* delay is a whole number.                                                *)
(***************************************************************************)
Values == {"v1", "v2"}
Errors == {"e1", "e2"}
Undefined == "undefined"
RandomHalves == {0, 1}

defaultRetryOptions ==
    [maxRetries |-> 3, initialDelayMs |-> 1000, maxDelayMs |-> 10000,
     factor |-> 2, jitter |-> TRUE]

\* The options withRetry is called with: none, { maxRetries: N }, or all.
RetryOptions ==
    {<<>>}
    \cup {[maxRetries |-> n] : n \in (-1)..MaxMaxRetries}
    \cup {[maxRetries |-> n, initialDelayMs |-> 2, maxDelayMs |-> 6,
           factor |-> 2, jitter |-> j] : n \in 0..MaxMaxRetries, j \in BOOLEAN}

\* { ...defaultRetryOptions, ...options }
MergeOptions(options) ==
    [k \in DOMAIN defaultRetryOptions |->
        IF k \in DOMAIN options THEN options[k] ELSE defaultRetryOptions[k]]

IntMin(a, b) == IF a <= b THEN a ELSE b

RECURSIVE Pow(_, _)
Pow(base, exponent) == IF exponent = 0 THEN 1 ELSE base * Pow(base, exponent - 1)

\* calculateBackoffDelay, with Math.random() = half / 2
calculateBackoffDelay(attempt, initialDelayMs, maxDelayMs, factor, jitter, half) ==
    LET delay == IntMin(initialDelayMs * Pow(factor, attempt), maxDelayMs)
        jitterAmount == (half * delay) \div 2
    IN  IF jitter THEN IntMin(delay + jitterAmount, maxDelayMs) ELSE delay

\* while (attempt <= maxRetries)
LoopContinues(attempt, maxRetries) == attempt <= maxRetries

\* Mutation: the loop is never left by break.
GiveUpNever(attempt, maxRetries) == FALSE

\* Mutation: the last retry is given up one failure early.
GiveUpEarly(attempt, maxRetries) == attempt + 1 >= maxRetries

\* if (attempt === maxRetries) break;
GiveUp(attempt, maxRetries) == attempt = maxRetries

\* Mutation: attempt is not incremented.
NextAttemptStuck(attempt) == attempt

\* attempt++
NextAttempt(attempt) == attempt + 1

Pending == [state |-> "pending", value |-> Undefined]

\* withRetry has been called and has set attempt = 0, error undefined.
RtCalled ==
    /\ rtOptions \in {MergeOptions(o) : o \in RetryOptions}
    /\ rtAttempt = 0
    /\ rtError = Undefined
    /\ rtDelay = 0
    /\ rtPc = "loop"
    /\ rtPromise = Pending
    /\ rtInFlight = 0
    /\ rtOutcomes = <<>>
    /\ rtEvents = <<>>

\* withRetry is not called.
RtIdle ==
    /\ rtOptions = defaultRetryOptions
    /\ rtAttempt = 0
    /\ rtError = Undefined
    /\ rtDelay = 0
    /\ rtPc = "idle"
    /\ rtPromise = Pending
    /\ rtInFlight = 0
    /\ rtOutcomes = <<>>
    /\ rtEvents = <<>>

\* The loop condition holds: fn() is invoked and awaited.
RtInvoke ==
    /\ rtPc = "loop"
    /\ LoopContinues(rtAttempt, rtOptions.maxRetries)
    /\ rtPc' = "fn"
    /\ rtInFlight' = rtInFlight + 1
    /\ rtEvents' = Append(rtEvents, "fn")
    /\ UNCHANGED <<rtOptions, rtAttempt, rtError, rtDelay, rtPromise, rtOutcomes>>
    /\ UNCHANGED rtRest

\* The loop condition fails: throw error.
RtExhausted ==
    /\ rtPc = "loop"
    /\ ~LoopContinues(rtAttempt, rtOptions.maxRetries)
    /\ rtPc' = "done"
    /\ rtPromise' = [state |-> "rejected", value |-> rtError]
    /\ UNCHANGED <<rtOptions, rtAttempt, rtError, rtDelay, rtInFlight, rtOutcomes,
                   rtEvents>>
    /\ UNCHANGED rtRest

\* The promise of fn() resolves: return await fn().
RtFnResolves ==
    /\ rtPc = "fn"
    /\ \E v \in Values :
           /\ rtOutcomes' = Append(rtOutcomes, [ok |-> TRUE, value |-> v])
           /\ rtPromise' = [state |-> "resolved", value |-> v]
    /\ rtInFlight' = rtInFlight - 1
    /\ rtPc' = "done"
    /\ UNCHANGED <<rtOptions, rtAttempt, rtError, rtDelay, rtEvents>>
    /\ UNCHANGED rtRest

\* The promise of fn() rejects: the catch block, up to break (and the throw
\* after the loop) or up to the call of wait(delay).
RtFnRejects ==
    /\ rtPc = "fn"
    /\ \E err \in Errors :
           /\ rtOutcomes' = Append(rtOutcomes, [ok |-> FALSE, value |-> err])
           /\ rtError' = err
           /\ IF GiveUp(rtAttempt, rtOptions.maxRetries)
                THEN /\ rtPc' = "done"
                     /\ rtPromise' = [state |-> "rejected", value |-> err]
                     /\ UNCHANGED <<rtDelay, rtEvents>>
                ELSE /\ rtPc' = "wait"
                     /\ rtEvents' = Append(rtEvents, "wait")
                     /\ \E half \in RandomHalves :
                            rtDelay' = calculateBackoffDelay(rtAttempt,
                                           rtOptions.initialDelayMs, rtOptions.maxDelayMs,
                                           rtOptions.factor, rtOptions.jitter, half)
                     /\ UNCHANGED rtPromise
    /\ rtInFlight' = rtInFlight - 1
    /\ UNCHANGED <<rtOptions, rtAttempt>>
    /\ UNCHANGED rtRest

\* The timer of wait(delay) fires: attempt++ and back to the loop condition.
RtWaitDone ==
    /\ rtPc = "wait"
    /\ rtAttempt' = NextAttempt(rtAttempt)
    /\ rtPc' = "loop"
    /\ UNCHANGED <<rtOptions, rtError, rtDelay, rtPromise, rtInFlight, rtOutcomes,
                   rtEvents>>
    /\ UNCHANGED rtRest

\* The invocations of fn that failed.
Failed(outcomes) == {i \in 1..Len(outcomes) : ~outcomes[i].ok}

\* C16: with maxRetries = N >= 0, fn is invoked one call at a time and at most
\* N + 1 times; withRetry resolves with the value of the first invocation that
\* succeeds, and fn is not invoked again after a success.
C16_AtMostOnceMoreThanRetries ==
    rtOptions.maxRetries >= 0 =>
        /\ rtInFlight <= 1
        /\ Len(rtOutcomes) + rtInFlight <= rtOptions.maxRetries + 1
        /\ \A i \in 1..Len(rtOutcomes) :
               rtOutcomes[i].ok =>
                   /\ i = Len(rtOutcomes)
                   /\ rtInFlight = 0
                   /\ rtPromise = [state |-> "resolved", value |-> rtOutcomes[i].value]
        /\ rtPromise.state = "resolved" =>
               /\ rtOutcomes # <<>>
               /\ rtOutcomes[Len(rtOutcomes)].ok

\* fn failed twice and then succeeded, and withRetry has resolved.
C16_Witness ==
    /\ rtOptions.maxRetries = 2
    /\ Len(rtOutcomes) = 3
    /\ Failed(rtOutcomes) = {1, 2}
    /\ rtPromise = [state |-> "resolved", value |-> rtOutcomes[3].value]

\* C17: with maxRetries = N >= 0, withRetry rejects only after exactly N + 1
\* invocations of fn have failed, and rejects with the error of the last one.
C17_RejectsWithLastError ==
    (rtOptions.maxRetries >= 0 /\ rtPromise.state = "rejected") =>
        /\ Len(rtOutcomes) = rtOptions.maxRetries + 1
        /\ Failed(rtOutcomes) = 1..(rtOptions.maxRetries + 1)
        /\ rtInFlight = 0
        /\ rtPromise.value = rtOutcomes[Len(rtOutcomes)].value

\* withRetry has rejected with an error that differs from the first one.
C17_Witness ==
    /\ rtOptions.maxRetries = 2
    /\ rtPromise.state = "rejected"
    /\ Len(rtOutcomes) = 3
    /\ rtOutcomes[1].value # rtOutcomes[3].value
    /\ rtPromise.value = rtOutcomes[3].value

\* The waits among the events.
Waits(events) == {i \in 1..Len(events) : events[i] = "wait"}

\* C25: between two consecutive invocations of fn exactly one wait occurs, no
\* wait occurs after a successful invocation or after the final
\* (maxRetries + 1th) failed one, and when f invocations have failed
\* min(f, maxRetries) waits have been made.
C25_OneWaitBetweenInvocations ==
    rtOptions.maxRetries >= 0 =>
        /\ \A i \in 1..Len(rtEvents) :
               rtEvents[i] = (IF i % 2 = 1 THEN "fn" ELSE "wait")
        /\ rtPromise.state # "pending" =>
               (rtEvents # <<>> /\ rtEvents[Len(rtEvents)] = "fn")
        /\ Cardinality(Waits(rtEvents)) =
               IntMin(Cardinality(Failed(rtOutcomes)), rtOptions.maxRetries)

\* With maxRetries = 2, fn has failed three times and two waits were made
\* before withRetry rejected.
C25_Witness ==
    /\ rtOptions.maxRetries = 2
    /\ rtPromise.state = "rejected"
    /\ Failed(rtOutcomes) = {1, 2, 3}
    /\ rtEvents = <<"fn", "wait", "fn", "wait", "fn">>

(***************************************************************************)
(* DatabaseConnection (src/src/Singleton/README.md, lines 107-152)         *)
(*                                                                         *)
(* Objects live in dbObjects and are named by their index; the constructor *)
(* is private, so objects are constructed by getInstance() only.           *)
(***************************************************************************)
NoInstance == 0
Sqls == {"SELECT * FROM users", "SELECT * FROM products"}
Initializing == <<"Initializing database connection...">>
Closing == <<"Closing database connection...">>
Executing(sql) == <<"Executing query: ", sql>>

\* Mutation: getInstance() constructs an object on every call.
NeedsInstanceAlways(instance) == TRUE

\* if (!DatabaseConnection.instance)
NeedsInstance(instance) == instance = NoInstance

\* new DatabaseConnection(): this.connection = this.initializeConnection()
NewConnection == [connection |-> "Connected"]

\* The class is loaded, nothing has been called.
DbLoaded ==
    /\ dbInstance = NoInstance
    /\ dbObjects = <<>>
    /\ dbConsole = <<>>
    /\ dbReturned = <<>>

\* DatabaseConnection.getInstance()
DbGetInstance ==
    /\ Len(dbReturned) < MaxGetInstance
    /\ IF NeedsInstance(dbInstance)
         THEN /\ dbObjects' = Append(dbObjects, NewConnection)
              /\ dbConsole' = Append(dbConsole, Initializing)
              /\ dbInstance' = Len(dbObjects) + 1
         ELSE UNCHANGED <<dbObjects, dbConsole, dbInstance>>
    /\ dbReturned' = Append(dbReturned, dbInstance')
    /\ UNCHANGED dbRest

\* db.query(sql) on a reference getInstance() returned
DbQuery ==
    /\ Len(dbConsole) < MaxConsole
    /\ \E i \in 1..Len(dbReturned), sql \in Sqls :
           dbConsole' = Append(dbConsole, Executing(sql))
    /\ UNCHANGED <<dbInstance, dbObjects, dbReturned>>
    /\ UNCHANGED dbRest

\* db.close() on a reference getInstance() returned
DbClose ==
    /\ Len(dbConsole) < MaxConsole
    /\ \E i \in 1..Len(dbReturned) :
           dbObjects' = [dbObjects EXCEPT ![dbReturned[i]].connection = "null"]
    /\ dbConsole' = Append(dbConsole, Closing)
    /\ UNCHANGED <<dbInstance, dbReturned>>
    /\ UNCHANGED dbRest

\* How often initializeConnection() has run.
Initializations == Cardinality({i \in 1..Len(dbConsole) : dbConsole[i] = Initializing})

\* C18: the constructor and initializeConnection run exactly once, during the
\* first getInstance() call and not before it, and every getInstance() call
\* returns the same instance.
C18_SingleInstance ==
    /\ dbReturned = <<>> => (Len(dbObjects) = 0 /\ Initializations = 0)
    /\ dbReturned # <<>> => (Len(dbObjects) = 1 /\ Initializations = 1)
    /\ \A i \in 1..Len(dbReturned) :
           /\ dbReturned[i] = dbReturned[1]
           /\ dbReturned[i] \in 1..Len(dbObjects)

\* getInstance() has been called three times, the last time after a close().
C18_Witness ==
    /\ Len(dbReturned) = 3
    /\ Len(dbConsole) >= 2
    /\ dbConsole[Len(dbConsole)] = Closing
    /\ dbObjects[dbReturned[3]].connection = "null"

(***************************************************************************)
(* CustomPizzaBuilder and Pizza (src/src/Builder/PizzaBuilder.ts)          *)
(*                                                                         *)
(* Pizza objects live in pzHeap and are named by their index, so that two  *)
(* references to one object see each other's changes.                      *)
(***************************************************************************)
Sizes == {"small", "large"}
CrustTypes == {"thin", "stuffed"}
Toppings == {"mushrooms", "onions"}

\* new Pizza()
NewPizza == [toppings |-> <<>>, size |-> "", crustType |-> ""]

\* Pizza.setSize
PizzaSetSize(pizza, size) == [pizza EXCEPT !.size = size]

\* Pizza.setCrustType
PizzaSetCrustType(pizza, type) == [pizza EXCEPT !.crustType = type]

\* Mutation: the topping is put in front of the others.
PizzaAddToppingFront(pizza, topping) ==
    [pizza EXCEPT !.toppings = <<topping>> \o pizza.toppings]

\* Pizza.addTopping
PizzaAddTopping(pizza, topping) ==
    [pizza EXCEPT !.toppings = Append(pizza.toppings, topping)]

\* Mutation: reset() empties the pizza the builder holds instead of replacing it.
ResetInPlace(heap, ref) ==
    [heap |-> [heap EXCEPT ![ref] = NewPizza], pizza |-> ref]

\* CustomPizzaBuilder.reset: this.pizza = new Pizza()
Reset(heap, ref) ==
    [heap |-> Append(heap, NewPizza), pizza |-> Len(heap) + 1]

\* new CustomPizzaBuilder()
PzConstructed ==
    /\ pzHeap = <<NewPizza>>
    /\ pzPizza = 1
    /\ pzBuilt = <<>>
    /\ pzSet = NewPizza
    /\ pzCalls = 0

\* pizzaBuilder.setSize(size)
PzSetSize ==
    /\ pzCalls < MaxSetterCalls
    /\ \E size \in Sizes :
           /\ pzHeap' = [pzHeap EXCEPT ![pzPizza] = PizzaSetSize(@, size)]
           /\ pzSet' = [pzSet EXCEPT !.size = size]
    /\ pzCalls' = pzCalls + 1
    /\ UNCHANGED <<pzPizza, pzBuilt>>
    /\ UNCHANGED pzRest

\* pizzaBuilder.setCrustType(type)
PzSetCrustType ==
    /\ pzCalls < MaxSetterCalls
    /\ \E type \in CrustTypes :
           /\ pzHeap' = [pzHeap EXCEPT ![pzPizza] = PizzaSetCrustType(@, type)]
           /\ pzSet' = [pzSet EXCEPT !.crustType = type]
    /\ pzCalls' = pzCalls + 1
    /\ UNCHANGED <<pzPizza, pzBuilt>>
    /\ UNCHANGED pzRest

\* pizzaBuilder.addTopping(topping)
PzAddTopping ==
    /\ pzCalls < MaxSetterCalls
    /\ \E topping \in Toppings :
           /\ pzHeap' = [pzHeap EXCEPT ![pzPizza] = PizzaAddTopping(@, topping)]
           /\ pzSet' = [pzSet EXCEPT !.toppings = Append(@, topping)]
    /\ pzCalls' = pzCalls + 1
    /\ UNCHANGED <<pzPizza, pzBuilt>>
    /\ UNCHANGED pzRest

\* pizzaBuilder.reset()
PzReset ==
    /\ Len(pzHeap) < MaxPizzas
    /\ pzHeap' = Reset(pzHeap, pzPizza).heap
    /\ pzPizza' = Reset(pzHeap, pzPizza).pizza
    /\ pzSet' = NewPizza
    /\ UNCHANGED <<pzBuilt, pzCalls>>
    /\ UNCHANGED pzRest

\* pizzaBuilder.build(): const result = this.pizza; this.reset(); return result
PzBuild ==
    /\ Len(pzHeap) < MaxPizzas
    /\ pzHeap' = Reset(pzHeap, pzPizza).heap
    /\ pzPizza' = Reset(pzHeap, pzPizza).pizza
    /\ pzBuilt' = Append(pzBuilt, [ref |-> pzPizza, pizza |-> pzHeap'[pzPizza],
                                   set |-> pzSet])
    /\ pzSet' = NewPizza
    /\ UNCHANGED pzCalls
    /\ UNCHANGED pzRest

\* No builder is constructed.
PzIdle ==
    /\ pzHeap = <<>>
    /\ pzPizza = 0
    /\ pzBuilt = <<>>
    /\ pzSet = NewPizza
    /\ pzCalls = 0

\* C19: build() returns the pizza holding exactly the size, crust type and
\* toppings (in the order added) set since construction or the previous
\* build() or reset(), and resets the builder: the pizza it holds afterwards
\* is a new one, holding only what has been set since.
C19_BuildReturnsWhatWasSet ==
    /\ \A i \in 1..Len(pzBuilt) :
           /\ pzBuilt[i].pizza = pzBuilt[i].set
           /\ pzBuilt[i].ref # pzPizza
    /\ pzHeap # <<>> => pzHeap[pzPizza] = pzSet

\* Two pizzas have been built, each with a size and two different toppings,
\* the second with other values than the first.
C19_Witness ==
    /\ Len(pzBuilt) = 2
    /\ pzBuilt[1].pizza.size = "large"
    /\ pzBuilt[1].pizza.toppings = <<"mushrooms">>
    /\ pzBuilt[2].pizza.size = ""
    /\ pzBuilt[2].pizza.toppings = <<"onions", "mushrooms">>

\* C20: once build() has returned a Pizza, no later builder operation changes
\* its size, crust type or toppings.
C20_BuiltPizzaKept ==
    \A i \in 1..Len(pzBuilt) : pzHeap[pzBuilt[i].ref] = pzBuilt[i].pizza

\* After a pizza was built, the builder has been given other values, has been
\* reset and has been given values again.
C20_Witness ==
    /\ Len(pzBuilt) = 1
    /\ pzBuilt[1].pizza.size = "small"
    /\ Len(pzHeap) = 3
    /\ pzHeap[2].size = "large"
    /\ pzHeap[3].toppings # <<>>

(***************************************************************************)
(* RestaurantFacade, Waiter, Kitchen, Order (src/unnamed/part_006)         *)
(*                                                                         *)
(* An Order is a record [ref, id, name, isReady]; ref numbers the Order    *)
(* objects in the order they were constructed.  name stands for the fields *)
(* the classes only copy (name, category, isVegan, price).  A value of     *)
(* type Order | null is <<>> for null and <<order>> for an order.          *)
(***************************************************************************)
OrderIds == {"1", "2"}
OrderNames == {"Vegan Burger", "Fries"}
Null == <<>>

\* new Order(orderData)
NewOrder(ref, orderData) ==
    [ref |-> ref, id |-> orderData.id, name |-> orderData.name, isReady |-> FALSE]

\* this.orders.find((o) => o.id === id): the index of the first match, 0 if none
FindIndex(orders, id) ==
    IF \E i \in 1..Len(orders) : orders[i].id = id
      THEN CHOOSE i \in 1..Len(orders) :
               /\ orders[i].id = id
               /\ \A j \in 1..(i - 1) : orders[j].id # id
      ELSE 0

\* this.orders.find((o) => o.id === id) as a value of type Order | null
Find(orders, id) ==
    IF FindIndex(orders, id) = 0 THEN Null ELSE <<orders[FindIndex(orders, id)]>>

\* this.orders.filter((o) => o.id === orderId)
RECURSIVE FilterById(_, _)
FilterById(orders, orderId) ==
    IF orders = <<>> THEN <<>>
    ELSE IF Head(orders).id = orderId
           THEN <<Head(orders)>> \o FilterById(Tail(orders), orderId)
           ELSE FilterById(Tail(orders), orderId)

\* Waiter.takeOrder: this.orders.push(order)
WaiterTakeOrder(orders, order) == Append(orders, order)

\* Waiter.receivePreparedOrder: the first order of that id becomes ready
WaiterReceivePreparedOrder(orders, order) ==
    IF FindIndex(orders, order.id) = 0 THEN orders
    ELSE [orders EXCEPT ![FindIndex(orders, order.id)].isReady = TRUE]

\* Mutation: the list is filtered before the order is looked for.
OrdersAfterServeUnchecked(orders, orderId) == FilterById(orders, orderId)

\* Waiter.serveOrder: this.orders after the call
OrdersAfterServe(orders, orderId) ==
    IF Find(orders, orderId) = Null THEN orders ELSE FilterById(orders, orderId)

\* new RestaurantFacade(): a waiter with no orders
RsConstructed ==
    /\ rsOrders = <<>>
    /\ rsCreated = 0
    /\ rsLog = <<>>

\* restaurant.takeOrder(orderData): the waiter takes the new order, the
\* kitchen prepares it and calls the waiter back before it returns.
RsTakeOrder ==
    /\ Len(rsLog) < MaxRestaurantCalls
    /\ \E id \in OrderIds, name \in OrderNames :
         LET order == NewOrder(rsCreated + 1, [id |-> id, name |-> name])
             taken == WaiterTakeOrder(rsOrders, order)
         IN  /\ rsOrders' = WaiterReceivePreparedOrder(taken, order)
             /\ rsLog' = Append(rsLog, [op |-> "takeOrder", id |-> id,
                                        before |-> rsOrders, after |-> rsOrders',
                                        result |-> Null])
    /\ rsCreated' = rsCreated + 1
    /\ UNCHANGED rsRest

\* restaurant.serveOrder(orderId)
RsServeOrder ==
    /\ Len(rsLog) < MaxRestaurantCalls
    /\ \E orderId \in OrderIds :
         /\ rsOrders' = OrdersAfterServe(rsOrders, orderId)
         /\ rsLog' = Append(rsLog, [op |-> "serveOrder", id |-> orderId,
                                    before |-> rsOrders, after |-> rsOrders',
                                    result |-> Find(rsOrders, orderId)])
    /\ UNCHANGED rsCreated
    /\ UNCHANGED rsRest

\* The orders of a list, as a set.
Members(orders) == {orders[i] : i \in 1..Len(orders)}

\* The calls of serveOrder whose id matched no order / some order of the list.
ServedMissing == {k \in 1..Len(rsLog) :
    rsLog[k].op = "serveOrder" /\ \A o \in Members(rsLog[k].before) : o.id # rsLog[k].id}
ServedPresent == {k \in 1..Len(rsLog) :
    rsLog[k].op = "serveOrder" /\ \E o \in Members(rsLog[k].before) : o.id = rsLog[k].id}

\* C21: serveOrder(id) for an id that matches no order of the waiter's list
\* returns null and leaves the list unchanged.
C21_MissingOrderNull ==
    \A k \in ServedMissing :
        /\ rsLog[k].result = Null
        /\ rsLog[k].after = rsLog[k].before

\* serveOrder was called with an id no order has, on a list that holds orders.
C21_Witness ==
    \E k \in ServedMissing :
        /\ rsLog[k].before # <<>>
        /\ rsLog[k].result = Null
        /\ rsLog[k].after = rsLog[k].before

\* C24: serveOrder(id) for an id in the list returns that order and removes
\* exactly it: orders of other ids stay in the list, and a second
\* serveOrder(id) right after it returns null.
C24_ServeRemovesExactlyServed ==
    \A k \in ServedPresent :
        /\ rsLog[k].result # Null
        /\ rsLog[k].result[1].id = rsLog[k].id
        /\ rsLog[k].result[1] \notin Members(rsLog[k].after)
        /\ \A o \in Members(rsLog[k].before) :
               o.id # rsLog[k].id => o \in Members(rsLog[k].after)
        /\ (/\ k < Len(rsLog)
            /\ rsLog[k + 1].op = "serveOrder"
            /\ rsLog[k + 1].id = rsLog[k].id
            /\ Cardinality({o \in Members(rsLog[k].before) : o.id = rsLog[k].id}) = 1)
               => rsLog[k + 1].result = Null

(***************************************************************************)
(* NotificationFactory (src/src/FactoryMethod/NotificationFactory.ts)      *)
(*                                                                         *)
(* A string is the sequence of its characters, so that toLowerCase() is    *)
(* computed character by character.  A notification object is a record of *)
(* its class and its field.                                                *)
(***************************************************************************)
UpperLetters ==
    <<"A", "B", "C", "D", "E", "F", "G", "H", "I", "J", "K", "L", "M",
      "N", "O", "P", "Q", "R", "S", "T", "U", "V", "W", "X", "Y", "Z">>
LowerLetters ==
    <<"a", "b", "c", "d", "e", "f", "g", "h", "i", "j", "k", "l", "m",
      "n", "o", "p", "q", "r", "s", "t", "u", "v", "w", "x", "y", "z">>

\* Mutation: the character is left as it is.
ToLowerCharKept(c) == c

\* String.prototype.toLowerCase, on one character
ToLowerChar(c) ==
    IF \E i \in 1..Len(UpperLetters) : UpperLetters[i] = c
      THEN LowerLetters[CHOOSE i \in 1..Len(UpperLetters) : UpperLetters[i] = c]
      ELSE c

\* type.toLowerCase()
ToLowerCase(str) == [i \in 1..Len(str) |-> ToLowerChar(str[i])]

\* The case labels of the switch.
CaseEmail == <<"e", "m", "a", "i", "l">>
CaseSms == <<"s", "m", "s">>
CasePush == <<"p", "u", "s", "h">>

InvalidType == <<"Error", "Invalid notification type">>

\* NotificationFactory.createNotification: what it returns or throws
createNotification(type, recipient) ==
    LET lowered == ToLowerCase(type)
    IN  IF lowered = CaseEmail
          THEN [returned |-> <<[class |-> "EmailNotification", email |-> recipient]>>,
                thrown |-> <<>>]
        ELSE IF lowered = CaseSms
          THEN [returned |-> <<[class |-> "SMSNotification", phone |-> recipient]>>,
                thrown |-> <<>>]
        ELSE IF lowered = CasePush
          THEN [returned |-> <<[class |-> "PushNotification", deviceToken |-> recipient]>>,
                thrown |-> <<>>]
        ELSE [returned |-> <<>>, thrown |-> InvalidType]

\* send(message): the line written by console.log
SendLine(notification, message) ==
    IF notification.class = "EmailNotification"
      THEN <<"Sending email to ", notification.email, ": ", message>>
    ELSE IF notification.class = "SMSNotification"
      THEN <<"Sending SMS to ", notification.phone, ": ", message>>
    ELSE <<"Sending push notification to device ", notification.deviceToken, ": ",
           message>>

\* The upper-case letter of a lower-case one; other characters as they are.
UpperOf(c) ==
    IF \E i \in 1..Len(LowerLetters) : LowerLetters[i] = c
      THEN UpperLetters[CHOOSE i \in 1..Len(LowerLetters) : LowerLetters[i] = c]
      ELSE c

\* A word in every mix of upper and lower case.
Spellings(word) ==
    {[i \in 1..Len(word) |-> IF i \in up THEN UpperOf(word[i]) ELSE word[i]] :
        up \in SUBSET (1..Len(word))}

\* The types createNotification is called with: the three types and some
\* strings that are none of them, in every mix of upper and lower case.
NotificationTypes ==
    UNION {Spellings(word) :
        word \in {CaseEmail, CaseSms, CasePush, <<>>, <<"f", "a", "x">>,
                  <<"m", "a", "i", "l">>, <<"s", "m", "s", "s">>, <<"p", "u", "s">>,
                  <<"e", "-", "m", "a", "i", "l">>, <<" ", "s", "m", "s">>}}

Recipients == {"user@example.com", "+1234567890"}
Messages == {"Your OTP is 1234"}

\* new NotificationFactory(); nothing created yet
NfConstructed ==
    /\ nfCall = <<>>
    /\ nfConsole = <<>>

\* notificationFactory.createNotification(type, recipient)
NfCreateNotification ==
    /\ \E type \in NotificationTypes, recipient \in Recipients :
           nfCall' = <<[type |-> type, recipient |-> recipient,
                        outcome |-> createNotification(type, recipient)]>>
    /\ nfConsole' = <<>>
    /\ UNCHANGED nfRest

\* notification.send(message) on the notification the latest call returned
NfSend ==
    /\ nfCall # <<>>
    /\ nfCall[1].outcome.returned # <<>>
    /\ nfConsole = <<>>
    /\ \E message \in Messages :
           nfConsole' = SendLine(nfCall[1].outcome.returned[1], message)
    /\ UNCHANGED nfCall
    /\ UNCHANGED nfRest

\* Two strings are equal when the case of their letters is ignored.
EqualsIgnoringCase(a, b) ==
    /\ Len(a) = Len(b)
    /\ \A i \in 1..Len(a) :
           \/ a[i] = b[i]
           \/ \E k \in 1..Len(UpperLetters) :
                  {a[i], b[i]} = {UpperLetters[k], LowerLetters[k]}

\* The notification of a class, bound to a recipient by the field named.
ReturnedIs(outcome, class, recipient) ==
    /\ outcome.thrown = <<>>
    /\ Len(outcome.returned) = 1
    /\ outcome.returned[1].class = class
    /\ \A field \in (DOMAIN outcome.returned[1]) \ {"class"} :
           outcome.returned[1][field] = recipient

\* C22: createNotification(type, recipient) returns an EmailNotification,
\* SMSNotification or PushNotification bound to recipient when type equals
\* 'email', 'sms' or 'push', ignoring case, and throws
\* Error('Invalid notification type') for every other type.
C22_CreatesByType ==
    \A i \in 1..Len(nfCall) :
        LET call == nfCall[i]
        IN  /\ EqualsIgnoringCase(call.type, CaseEmail)
                => ReturnedIs(call.outcome, "EmailNotification", call.recipient)
            /\ EqualsIgnoringCase(call.type, CaseSms)
                => ReturnedIs(call.outcome, "SMSNotification", call.recipient)
            /\ EqualsIgnoringCase(call.type, CasePush)
                => ReturnedIs(call.outcome, "PushNotification", call.recipient)
            /\ (/\ ~EqualsIgnoringCase(call.type, CaseEmail)
                /\ ~EqualsIgnoringCase(call.type, CaseSms)
                /\ ~EqualsIgnoringCase(call.type, CasePush))
                => (call.outcome.returned = <<>> /\ call.outcome.thrown = InvalidType)

\* createNotification('PuSh', '+1234567890') has returned a PushNotification,
\* which has sent a message to that recipient.
C22_Witness ==
    /\ nfCall # <<>>
    /\ nfCall[1].type = <<"P", "u", "S", "h">>
    /\ ReturnedIs(nfCall[1].outcome, "PushNotification", "+1234567890")
    /\ nfConsole # <<>>
    /\ nfConsole[2] = "+1234567890"

(***************************************************************************)
(* retry (src/unnamed/part_005)                                            *)
(*                                                                         *)
(* fn is any function returning a promise, as for withRetry.  The throw of *)
(* line 22 stands inside the for loop, after the try statement: it is      *)
(* reached whenever the catch block completes, so i++ never runs.          *)
(***************************************************************************)
RetryDelayMs == 1000
RetryTickMs == 500
RetriesArgs == 0..MaxRetriesArg

\* new Error(`Request failed after ${retries} retries`)
RequestFailed(retries) == <<"Error", "Request failed after ", retries, " retries">>

\* for (...; i < retries; ...)
ForContinues(i, retries) == i < retries

\* if (i < retries - 1)
DelayFirst(i, retries) == i < retries - 1

\* retry(fn, retries) has been called: let i = 0
R5Called ==
    /\ r5Retries \in RetriesArgs
    /\ r5I = 0
    /\ r5Pc = "for"
    /\ r5Promise = Pending
    /\ r5Now = 0
    /\ r5Due = -1
    /\ r5Outcomes = <<>>
    /\ r5Waits = <<>>

\* retry is not called.
R5Idle ==
    /\ r5Retries = 0
    /\ r5I = 0
    /\ r5Pc = "idle"
    /\ r5Promise = Pending
    /\ r5Now = 0
    /\ r5Due = -1
    /\ r5Outcomes = <<>>
    /\ r5Waits = <<>>

\* The loop condition holds: fn() is invoked and awaited.
R5Invoke ==
    /\ r5Pc = "for"
    /\ ForContinues(r5I, r5Retries)
    /\ r5Pc' = "fn"
    /\ UNCHANGED <<r5Retries, r5I, r5Promise, r5Now, r5Due, r5Outcomes, r5Waits>>
    /\ UNCHANGED r5Rest

\* The loop condition fails: the function ends without a return statement.
R5FallsThrough ==
    /\ r5Pc = "for"
    /\ ~ForContinues(r5I, r5Retries)
    /\ r5Pc' = "done"
    /\ r5Promise' = [state |-> "resolved", value |-> Undefined]
    /\ UNCHANGED <<r5Retries, r5I, r5Now, r5Due, r5Outcomes, r5Waits>>
    /\ UNCHANGED r5Rest

\* The promise of fn() resolves: return await fn()
R5FnResolves ==
    /\ r5Pc = "fn"
    /\ \E v \in Values :
           /\ r5Outcomes' = Append(r5Outcomes, [ok |-> TRUE, value |-> v, at |-> r5Now])
           /\ r5Promise' = [state |-> "resolved", value |-> v]
    /\ r5Pc' = "done"
    /\ UNCHANGED <<r5Retries, r5I, r5Now, r5Due, r5Waits>>
    /\ UNCHANGED r5Rest

\* The promise of fn() rejects: the catch block, up to delay(1000), or through
\* it to the throw of line 22.
R5FnRejects ==
    /\ r5Pc = "fn"
    /\ \E err \in Errors :
           r5Outcomes' = Append(r5Outcomes, [ok |-> FALSE, value |-> err, at |-> r5Now])
    /\ IF DelayFirst(r5I, r5Retries)
         THEN /\ r5Pc' = "delay"
              /\ r5Due' = r5Now + RetryDelayMs
              /\ UNCHANGED r5Promise
         ELSE /\ r5Pc' = "done"
              /\ r5Promise' = [state |-> "rejected", value |-> RequestFailed(r5Retries)]
              /\ UNCHANGED r5Due
    /\ UNCHANGED <<r5Retries, r5I, r5Now, r5Waits>>
    /\ UNCHANGED r5Rest

\* The timer of delay(1000) fires: the catch block is done, line 22 throws.
R5DelayDone ==
    /\ r5Pc = "delay"
    /\ r5Now >= r5Due
    /\ r5Waits' = Append(r5Waits, [from |-> r5Due - RetryDelayMs, to |-> r5Now])
    /\ r5Due' = -1
    /\ r5Pc' = "done"
    /\ r5Promise' = [state |-> "rejected", value |-> RequestFailed(r5Retries)]
    /\ UNCHANGED <<r5Retries, r5I, r5Now, r5Outcomes>>
    /\ UNCHANGED r5Rest

\* Time passes while fn() or the timer is pending.
R5Tick ==
    /\ r5Pc \in {"fn", "delay"}
    /\ r5Now + RetryTickMs <= MaxRetryNow
    /\ r5Now' = r5Now + RetryTickMs
    /\ UNCHANGED <<r5Retries, r5I, r5Pc, r5Promise, r5Due, r5Outcomes, r5Waits>>
    /\ UNCHANGED r5Rest

\* C23: retry(fn, retries) with retries >= 1 invokes fn again after each
\* failure, up to `retries` invocations, and rejects, with 'Request failed
\* after <retries> retries', only when all `retries` invocations have failed.
C23_RejectsAfterAllRetries ==
    (r5Retries >= 1 /\ r5Promise.state = "rejected") =>
        /\ Len(r5Outcomes) = r5Retries
        /\ \A k \in 1..Len(r5Outcomes) : ~r5Outcomes[k].ok
        /\ r5Promise.value = RequestFailed(r5Retries)

(***************************************************************************)
(* Specifications                                                          *)
(***************************************************************************)
InitFW == FWConstructed /\ TBIdle /\ ExIdle /\ RtIdle /\ DbLoaded /\ PzIdle /\ RsConstructed /\ NfConstructed /\ R5Idle

NextFW ==
    \/ \E identifier \in Identifiers : FWIsAllowed(identifier)
    \/ FWTick

SpecFW == InitFW /\ [][NextFW]_vars

InitTB == TBConstructed /\ FWIdle /\ ExIdle /\ RtIdle /\ DbLoaded /\ PzIdle /\ RsConstructed /\ NfConstructed /\ R5Idle

NextTB ==
    \/ TBRequest
    \/ TBRequestAll
    \/ TBTick

SpecTB == InitTB /\ [][NextTB]_vars

\* The bucket of capacity 10 and rate 1, asked for one token at a time or for
\* all it holds.
InitTBTen == TBIdle /\ FWIdle /\ ExIdle /\ RtIdle /\ DbLoaded /\ PzIdle /\ RsConstructed /\ NfConstructed /\ R5Idle

NextTBTen ==
    \/ TBRequestOne
    \/ TBRequestAll
    \/ TBTick

SpecTBTen == InitTBTen /\ [][NextTBTen]_vars

\* The script has run to its end: the bucket is constructed, the timers set.
InitExample ==
    /\ TBIdle
    /\ exPending = ExTimers
    /\ exFired = -1
    /\ exOnTime = TRUE
    /\ FWIdle
    /\ RtIdle
    /\ DbLoaded
    /\ PzIdle
    /\ RsConstructed
    /\ NfConstructed
    /\ R5Idle

NextExample ==
    \/ ExWait
    \/ ExFire

SpecTBExample == InitExample /\ [][NextExample]_vars

InitRetry == RtCalled /\ FWIdle /\ TBIdle /\ ExIdle /\ DbLoaded /\ PzIdle /\ RsConstructed /\ NfConstructed /\ R5Idle

NextRetry ==
    \/ RtInvoke
    \/ RtExhausted
    \/ RtFnResolves
    \/ RtFnRejects
    \/ RtWaitDone

SpecRetry == InitRetry /\ [][NextRetry]_vars

InitDb == DbLoaded /\ FWIdle /\ TBIdle /\ ExIdle /\ RtIdle /\ PzIdle /\ RsConstructed /\ NfConstructed /\ R5Idle

NextDb ==
    \/ DbGetInstance
    \/ DbQuery
    \/ DbClose

SpecDb == InitDb /\ [][NextDb]_vars

InitPizza == PzConstructed /\ FWIdle /\ TBIdle /\ ExIdle /\ RtIdle /\ DbLoaded /\ RsConstructed /\ NfConstructed /\ R5Idle

NextPizza ==
    \/ PzSetSize
    \/ PzSetCrustType
    \/ PzAddTopping
    \/ PzReset
    \/ PzBuild

SpecPizza == InitPizza /\ [][NextPizza]_vars

InitRestaurant == RsConstructed /\ FWIdle /\ TBIdle /\ ExIdle /\ RtIdle /\ DbLoaded /\ PzIdle /\ NfConstructed /\ R5Idle

NextRestaurant ==
    \/ RsTakeOrder
    \/ RsServeOrder

SpecRestaurant == InitRestaurant /\ [][NextRestaurant]_vars

InitNotification ==
    /\ NfConstructed
    /\ FWIdle /\ TBIdle /\ ExIdle /\ RtIdle /\ DbLoaded /\ PzIdle /\ RsConstructed /\ R5Idle

NextNotification ==
    \/ NfCreateNotification
    \/ NfSend

SpecNotification == InitNotification /\ [][NextNotification]_vars

InitRetry5 ==
    R5Called /\ FWIdle /\ TBIdle /\ ExIdle /\ RtIdle /\ DbLoaded /\ PzIdle /\ RsConstructed /\ NfConstructed

NextRetry5 ==
    \/ R5Invoke
    \/ R5FallsThrough
    \/ R5FnResolves
    \/ R5FnRejects
    \/ R5DelayDone
    \/ R5Tick

SpecRetry5 == InitRetry5 /\ [][NextRetry5]_vars

====
